---------------------------- MODULE Spec2Model ----------------------------
(***************************************************************************)
(* A model of the guitar-app gesture engine:                               *)
(*   - GuitarCanvas.handleInterpretation (the gesture classifier),         *)
(*   - the pure helpers of useGuitarEngine.ts (fretboard mapping, pitch    *)
(*     derivation, chord detection),                                       *)
(*   - the useGuitarEngine hook (session state, gesture log, status) and   *)
(*     its demo playback over the host timer queue,                        *)
(*   - GuitarSoundEngine (what is dispatched to the audio context).        *)
(*                                                                         *)
(* Numbers.  JavaScript numbers are modelled by exact integers/rationals:  *)
(*   - pixels and milliseconds are integers;                               *)
(*   - a normalized coordinate or any other "JS number" handed to a        *)
(*     mapping function is a tagged triple <<"num", n, d>> (the rational   *)
(*     n/d, d > 0) or <<"nan", 0, 1>>; an absent value is <<>>;            *)
(*   - speeds are in hundredths, velocities of a strum or slide in         *)
(*     thousandths, tap velocities in 1/350ths;                            *)
(*   - a frequency 440 * 2^((p - 69)/12) is represented by its pitch       *)
(*     coordinate 40 * p (fortieths of a semitone), which is a bijection.  *)
(* An optional value (undefined/null in the source) is <<>> when absent    *)
(* and <<v>> when present.                                                 *)
(***************************************************************************)
EXTENDS Integers, Sequences, FiniteSets, TLC

---------------------------------------------------------------------------
(* Optional values and JS numbers                                          *)

None == <<>>

Some(v) == <<v>>

IsSome(o) == o # <<>>

Num(n, d) == <<"num", n, d>>

IntNum(n) == <<"num", n, 1>>

NaN == <<"nan", 0, 1>>

IsNaN(v) == v[1] = "nan"

\* Math.floor(n/d) for d > 0
Floor(n, d) == n \div d

\* Math.round(n/d) for d > 0: halves round towards +Infinity
Round(n, d) == (2 * n + d) \div (2 * d)

Min2(a, b) == IF a <= b THEN a ELSE b

Max2(a, b) == IF a >= b THEN a ELSE b

RECURSIVE SetToSortedSeq(_)
\* Array.from(set).sort((a, b) => a - b) on a set of integers
SetToSortedSeq(S) ==
    IF S = {} THEN <<>>
    ELSE LET m == CHOOSE x \in S : \A y \in S : x <= y
         IN  <<m>> \o SetToSortedSeq(S \ {m})

Take(s, n) == IF n >= Len(s) THEN s ELSE SubSeq(s, 1, n)

Reverse(s) == [i \in 1..Len(s) |-> s[Len(s) + 1 - i]]

Range(s) == {s[i] : i \in 1..Len(s)}

---------------------------------------------------------------------------
(* useGuitarEngine.ts: static data                                         *)

\* frequency in hundredths of a hertz, as written in the table
GUITAR_STRINGS ==
    << [id |-> "highE", name |-> "High E", label |-> "E4", frequency |-> 32963, midi |-> 64, order |-> 0],
       [id |-> "B",     name |-> "B",      label |-> "B3", frequency |-> 24694, midi |-> 59, order |-> 1],
       [id |-> "G",     name |-> "G",      label |-> "G3", frequency |-> 19600, midi |-> 55, order |-> 2],
       [id |-> "D",     name |-> "D",      label |-> "D3", frequency |-> 14683, midi |-> 50, order |-> 3],
       [id |-> "A",     name |-> "A",      label |-> "A2", frequency |-> 11000, midi |-> 45, order |-> 4],
       [id |-> "lowE",  name |-> "Low E",  label |-> "E2", frequency |-> 8241,  midi |-> 40, order |-> 5] >>

StringIds == {GUITAR_STRINGS[i].id : i \in 1..Len(GUITAR_STRINGS)}

\* GUITAR_STRINGS[index] with the source's 0-based index
StringAt(index) == GUITAR_STRINGS[index + 1]

\* GUITAR_STRINGS.findIndex((entry) => entry.id === id), -1 when absent
FindStringIndex(id) ==
    IF \E i \in 1..Len(GUITAR_STRINGS) : GUITAR_STRINGS[i].id = id
    THEN (CHOOSE i \in 1..Len(GUITAR_STRINGS) : GUITAR_STRINGS[i].id = id) - 1
    ELSE -1

CLASSICAL_DEMO_SEQUENCE ==
    << [atMs |-> 0,    stringId |-> "lowE",  fret |-> 0, durationMs |-> 460],
       [atMs |-> 260,  stringId |-> "A",     fret |-> 2, durationMs |-> 420],
       [atMs |-> 520,  stringId |-> "D",     fret |-> 2, durationMs |-> 420],
       [atMs |-> 780,  stringId |-> "G",     fret |-> 0, durationMs |-> 420],
       [atMs |-> 1040, stringId |-> "B",     fret |-> 0, durationMs |-> 420],
       [atMs |-> 1300, stringId |-> "highE", fret |-> 0, durationMs |-> 460],
       [atMs |-> 1560, stringId |-> "B",     fret |-> 0, durationMs |-> 420],
       [atMs |-> 1820, stringId |-> "G",     fret |-> 0, durationMs |-> 420],
       [atMs |-> 2080, stringId |-> "D",     fret |-> 2, durationMs |-> 420],
       [atMs |-> 2340, stringId |-> "A",     fret |-> 2, durationMs |-> 420],
       [atMs |-> 2600, stringId |-> "lowE",  fret |-> 0, durationMs |-> 460],
       [atMs |-> 2860, stringId |-> "B",     fret |-> 3, durationMs |-> 420],
       [atMs |-> 3120, stringId |-> "highE", fret |-> 0, durationMs |-> 420],
       [atMs |-> 3380, stringId |-> "B",     fret |-> 2, durationMs |-> 420],
       [atMs |-> 3640, stringId |-> "highE", fret |-> 0, durationMs |-> 420],
       [atMs |-> 3900, stringId |-> "B",     fret |-> 3, durationMs |-> 420],
       [atMs |-> 4160, stringId |-> "highE", fret |-> 0, durationMs |-> 480] >>

RECURSIVE MaxEndFrom(_, _)
\* the reduce of CLASSICAL_DEMO_DURATION_MS, from event i with accumulator max
MaxEndFrom(i, max) ==
    IF i > Len(CLASSICAL_DEMO_SEQUENCE) THEN max
    ELSE LET end == CLASSICAL_DEMO_SEQUENCE[i].atMs + CLASSICAL_DEMO_SEQUENCE[i].durationMs
         IN  MaxEndFrom(i + 1, IF end > max THEN end ELSE max)

CLASSICAL_DEMO_DURATION_MS == MaxEndFrom(1, 0)

DEMO_COMPLETION_DELAY_MS == 480

CLASSICAL_DEMO_HEADLINE == "Classical demo: Spanish Romance (excerpt)"

STRING_SPACING_PX == 40

STRING_TOP_OFFSET_PX == 40

MAX_FRET == 12

\* FRETBOARD_START_RATIO = 0.1 and FRETBOARD_END_RATIO = 0.9, in tenths
FRETBOARD_START_TENTHS == 1

FRETBOARD_END_TENTHS == 9

FRETBOARD_SPAN_TENTHS == FRETBOARD_END_TENTHS - FRETBOARD_START_TENTHS

NOTE_NAMES == <<"C", "C#", "D", "D#", "E", "F", "F#", "G", "G#", "A", "A#", "B">>

---------------------------------------------------------------------------
(* useGuitarEngine.ts: pure helpers                                        *)

\* clamp on integers (the NaN branch is taken by the callers that can see NaN)
clamp(value, min, max) == Min2(max, Max2(min, value))

\* a string lookup that truncates towards the string above instead of rounding
findStringIndexFromYFloor(y) ==
    IF IsNaN(y) THEN 0
    ELSE Min2(Len(GUITAR_STRINGS) - 1,
              Max2(0, Floor(y[2] - STRING_TOP_OFFSET_PX * y[3], STRING_SPACING_PX * y[3])))

\* findStringIndexFromY(y): y a JS number with integer denominator 1 (pixels)
\* or NaN; NaN propagates through Math.round and clamp returns min
findStringIndexFromY(y) ==
    IF IsNaN(y) THEN 0
    ELSE LET rounded == Round(y[2] - STRING_TOP_OFFSET_PX * y[3], STRING_SPACING_PX * y[3])
         IN  clamp(rounded, 0, Len(GUITAR_STRINGS) - 1)

\* a velocity curve steep enough to saturate at speed 1.25
mapSpeedToVelocitySaturatingAt125(speed) == clamp(speed * 8, 250, 1000)

\* mapSpeedToVelocity: speed in hundredths, velocity in thousandths
mapSpeedToVelocity(speed) == clamp(speed * 6, 250, 1000)

\* mapTapDurationToVelocity: velocity in 1/350ths (0.2 = 70/350, 0.9 = 315/350)
mapTapDurationToVelocity(durationMs) == clamp(350 - durationMs, 70, 315)

\* mapDistanceToSlideSemitones: result in fortieths of a semitone
mapDistanceToSlideSemitones(distance) == clamp(distance, 1 * 40, 6 * 40)

\* a fret lookup over the whole surface, without the fretboard's start and end
computeFretFromRelativeXWholeSurface(relativeX) ==
    IF relativeX = None \/ IsNaN(relativeX) THEN 0
    ELSE Min2(MAX_FRET, Max2(0, Round(relativeX[2] * MAX_FRET, relativeX[3])))

\* computeFretFromRelativeX(relativeX): relativeX absent, NaN or the rational n/d.
\* normalized = clamp01((x - start) / span); fret = round(normalized * MAX_FRET)
computeFretFromRelativeX(relativeX) ==
    IF relativeX = None \/ IsNaN(relativeX) THEN 0
    ELSE IF FRETBOARD_SPAN_TENTHS <= 0 THEN 0
    ELSE LET n == relativeX[2]
             d == relativeX[3]
             \* (x - start) / span = num / den
             num == 10 * n - FRETBOARD_START_TENTHS * d
             den == FRETBOARD_SPAN_TENTHS * d
             \* clamp01
             cnum == IF num <= 0 THEN 0 ELSE IF num >= den THEN den ELSE num
             fret == Round(cnum * MAX_FRET, den)
         IN  clamp(fret, 0, MAX_FRET)

\* midiToFrequency, as the pitch coordinate of the frequency (see header)
midiToFrequency(midi) == 40 * midi

getPitchClass(midi) == ((midi % 12) + 12) % 12

\* a label whose octave is counted from 0 at midi 0
midiToNoteLabelOctaveFromZero(midi) ==
    NOTE_NAMES[(((midi % 12) + 12) % 12) + 1] \o ToString(Floor(midi, 12))

midiToNoteLabel(midi) ==
    LET noteIndex == ((midi % 12) + 12) % 12
        octave == Floor(midi, 12) - 1
    IN  NOTE_NAMES[noteIndex + 1] \o ToString(octave)

createPitchSnapshot(stringDef, fret, articulation, durationMs) ==
    LET clampedFret == clamp(fret, 0, MAX_FRET)
        midi == stringDef.midi + clampedFret
    IN  [string |-> stringDef,
         articulation |-> articulation,
         durationMs |-> durationMs,
         fret |-> clampedFret,
         midi |-> midi,
         label |-> midiToNoteLabel(midi),
         frequency |-> midiToFrequency(midi)]

\* a slide target that is not kept on the fretboard
computeSlideTargetFretUnclamped(startFret, direction, distance) ==
    LET semitoneDelta == Max2(1, Round(mapDistanceToSlideSemitones(distance), 40))
    IN  IF direction = "right" THEN startFret + semitoneDelta ELSE startFret - semitoneDelta

computeSlideTargetFret(startFret, direction, distance) ==
    LET semitoneDelta == Max2(1, Round(mapDistanceToSlideSemitones(distance), 40))
        delta == IF direction = "right" THEN semitoneDelta ELSE -semitoneDelta
    IN  clamp(startFret + delta, 0, MAX_FRET)

TRIAD_PATTERNS ==
    << [quality |-> "major", intervals |-> <<0, 4, 7>>],
       [quality |-> "minor", intervals |-> <<0, 3, 7>>] >>

RECURSIVE Dedupe(_, _)
\* Array.from(new Set(values)): the distinct values in order of first occurrence
Dedupe(values, seen) ==
    IF values = <<>> THEN <<>>
    ELSE IF Head(values) \in seen THEN Dedupe(Tail(values), seen)
    ELSE <<Head(values)>> \o Dedupe(Tail(values), seen \cup {Head(values)})

\* a flatMap callback that accepts a pattern as soon as one of its intervals
\* is present above rootPitchClass
CandidatesOfRootOnAnyInterval(rootPitchClass, pitchClasses) ==
    LET intervalSet == {(pitchClasses[i] - rootPitchClass + 12) % 12 : i \in 1..Len(pitchClasses)}
        intervals == SetToSortedSeq(intervalSet)
        matching == SelectSeq(TRIAD_PATTERNS,
                              LAMBDA pattern : \E k \in 1..Len(pattern.intervals) :
                                                  pattern.intervals[k] \in intervalSet)
    IN  [k \in 1..Len(matching) |->
            [rootPitchClass |-> rootPitchClass, pattern |-> matching[k], intervals |-> intervals]]

\* the body of the flatMap callback: the patterns, in table order, whose
\* intervals are all present above rootPitchClass
CandidatesOfRoot(rootPitchClass, pitchClasses) ==
    LET intervalSet == {(pitchClasses[i] - rootPitchClass + 12) % 12 : i \in 1..Len(pitchClasses)}
        intervals == SetToSortedSeq(intervalSet)
        matching == SelectSeq(TRIAD_PATTERNS,
                              LAMBDA pattern : \A k \in 1..Len(pattern.intervals) :
                                                  pattern.intervals[k] \in intervalSet)
    IN  [k \in 1..Len(matching) |->
            [rootPitchClass |-> rootPitchClass, pattern |-> matching[k], intervals |-> intervals]]

RECURSIVE FlatMapCandidates(_, _)
\* pitchClasses.flatMap(...) over the roots still to visit
FlatMapCandidates(roots, pitchClasses) ==
    IF roots = <<>> THEN <<>>
    ELSE CandidatesOfRoot(Head(roots), pitchClasses) \o FlatMapCandidates(Tail(roots), pitchClasses)

\* the map callback that scores a candidate
ScoreCandidate(c) ==
    LET extraIntervals == SelectSeq(c.intervals,
                                    LAMBDA interval : interval # 0 /\ interval \notin Range(c.pattern.intervals))
    IN  [rootPitchClass |-> c.rootPitchClass, pattern |-> c.pattern,
         intervals |-> c.intervals, extraCount |-> Len(extraIntervals)]

\* a comparator that orders by extra count alone
CompareScoredByCountOnly(a, b) == a.extraCount - b.extraCount

\* the sort comparator: negative when a sorts before b
CompareScored(a, b) ==
    IF a.extraCount # b.extraCount THEN a.extraCount - b.extraCount
    ELSE IF a.pattern.quality = b.pattern.quality THEN 0
    ELSE IF a.pattern.quality = "major" THEN -1 ELSE 1

RECURSIVE InsertSorted(_, _)
\* insert x after every element that does not sort after it (keeps the sort stable)
InsertSorted(x, sorted) ==
    IF sorted = <<>> THEN <<x>>
    ELSE IF CompareScored(x, Head(sorted)) < 0 THEN <<x>> \o sorted
    ELSE <<Head(sorted)>> \o InsertSorted(x, Tail(sorted))

RECURSIVE SortScored(_)
\* Array.prototype.sort with CompareScored: a stable sort
SortScored(items) ==
    IF items = <<>> THEN <<>>
    ELSE InsertSorted(items[Len(items)], SortScored(SubSeq(items, 1, Len(items) - 1)))

\* frettedState[id] ?? 0
FretOf(frettedState, id) == IF id \in DOMAIN frettedState THEN frettedState[id] ELSE 0

\* detectChordFromFrets: None for null, Some(chord) otherwise
detectChordFromFrets(frettedState) ==
    LET midiValues == [i \in 1..Len(GUITAR_STRINGS) |->
                          GUITAR_STRINGS[i].midi + clamp(FretOf(frettedState, GUITAR_STRINGS[i].id), 0, MAX_FRET)]
        pitchClasses == Dedupe([i \in 1..Len(midiValues) |-> getPitchClass(midiValues[i])], {})
        candidates == FlatMapCandidates(pitchClasses, pitchClasses)
        scored == SortScored([i \in 1..Len(candidates) |-> ScoreCandidate(candidates[i])])
    IN  IF Len(pitchClasses) < 3 THEN None
        ELSE IF Len(candidates) = 0 THEN None
        ELSE LET best == scored[1]
                 rootName == NOTE_NAMES[best.rootPitchClass + 1]
             IN  Some([root |-> rootName,
                       quality |-> best.pattern.quality,
                       notes |-> [k \in 1..Len(best.intervals) |->
                                     NOTE_NAMES[((best.rootPitchClass + best.intervals[k]) % 12) + 1]],
                       intervals |-> best.intervals,
                       label |-> rootName \o " " \o best.pattern.quality])

\* Number.prototype.toFixed(0) of an integer
ToFixed0(n) == ToString(n)

\* Number.prototype.toFixed(2) of a non-negative number given in hundredths
ToFixed2(hundredths) ==
    ToString(hundredths \div 100) \o "." \o ToString((hundredths % 100) \div 10)
        \o ToString(hundredths % 10)

\* String.prototype.toUpperCase on the four direction words
ToUpperCase(direction) ==
    CASE direction = "up" -> "UP"
      [] direction = "down" -> "DOWN"
      [] direction = "left" -> "LEFT"
      [] direction = "right" -> "RIGHT"

\* formatGestureInternal; "\\u2022" stands for the bullet character U+2022
formatGestureInternal(gesture) ==
    CASE gesture.type = "tap" ->
            "Tap at (" \o ToFixed0(gesture.position.x) \o ", " \o ToFixed0(gesture.position.y)
                \o ") in " \o ToString(gesture.duration) \o "ms"
      [] gesture.type = "strum" ->
            ToUpperCase(gesture.direction) \o " strum \\u2022 " \o ToFixed0(gesture.distance)
                \o "px at " \o ToFixed2(gesture.speed) \o "v"
      [] gesture.type = "slide" ->
            ToUpperCase(gesture.direction) \o " slide \\u2022 " \o ToFixed0(gesture.distance)
                \o "px at " \o ToFixed2(gesture.speed) \o "v"
      [] OTHER -> gesture.detail

---------------------------------------------------------------------------
(* useGuitarEngine.ts: GuitarSoundEngine.  Each operator returns the       *)
(* sequence of oscillators the call programs on the audio context: their   *)
(* frequency (pitch coordinate), start delay and duration in ms, velocity  *)
(* as <<numerator, denominator>>.                                          *)

\* playFrequency without its test of the context
playFrequencyWithoutContextTest(context, frequency, durationMs, velocity, startDelayMs) ==
    << [kind |-> "tone", frequency |-> frequency, startDelayMs |-> startDelayMs,
        releaseMs |-> startDelayMs + durationMs, velocity |-> velocity] >>

\* GuitarSoundEngine.playFrequency
playFrequency(context, frequency, durationMs, velocity, startDelayMs) ==
    IF ~context THEN <<>>
    ELSE << [kind |-> "tone", frequency |-> frequency, startDelayMs |-> startDelayMs,
             releaseMs |-> startDelayMs + durationMs, velocity |-> velocity] >>

\* GuitarSoundEngine.triggerTap
triggerTap(context, stringIndex, durationMs, fret) ==
    LET clampedIndex == clamp(stringIndex, 0, Len(GUITAR_STRINGS) - 1)
        stringDef == StringAt(clampedIndex)
        velocity == <<mapTapDurationToVelocity(durationMs), 350>>
        frequency == midiToFrequency(stringDef.midi + clamp(fret, 0, MAX_FRET))
    IN  playFrequency(context, frequency, 450, velocity, 0)

RECURSIVE StrumTones(_, _, _, _)
\* the forEach of triggerStrum, from 0-based position index
StrumTones(context, orderedStrings, velocity, index) ==
    IF index >= Len(orderedStrings) THEN <<>>
    ELSE playFrequency(context, midiToFrequency(orderedStrings[index + 1].midi), 600, velocity, index * 25)
            \o StrumTones(context, orderedStrings, velocity, index + 1)

\* a strum that sounds the strings from the top in both directions
triggerStrumTopDown(context, direction, speed) ==
    StrumTones(context, GUITAR_STRINGS, <<mapSpeedToVelocity(speed), 1000>>, 0)

\* GuitarSoundEngine.triggerStrum
triggerStrum(context, direction, speed) ==
    LET orderedStrings == IF direction = "down" THEN GUITAR_STRINGS ELSE Reverse(GUITAR_STRINGS)
        velocity == <<mapSpeedToVelocity(speed), 1000>>
    IN  StrumTones(context, orderedStrings, velocity, 0)

\* GuitarSoundEngine.triggerSlide; sustain in 1/180 s (0.3 s = 54, 1 s = 180)
triggerSlide(context, stringIndex, direction, distance, speed, startFret) ==
    IF ~context THEN <<>>
    ELSE LET clampedIndex == clamp(stringIndex, 0, Len(GUITAR_STRINGS) - 1)
             baseString == StringAt(clampedIndex)
             clampedFret == clamp(startFret, 0, MAX_FRET)
             velocity == <<mapSpeedToVelocity(speed), 1000>>
             slideSemitones == mapDistanceToSlideSemitones(distance)
             startFrequency == midiToFrequency(baseString.midi + clampedFret)
             \* multiplying by 2^(s/12) adds s semitones to the pitch coordinate
             targetFrequency == IF direction = "right" THEN startFrequency + slideSemitones
                                ELSE startFrequency - slideSemitones
             sustain == clamp(distance, 54, 180)
         IN  << [kind |-> "slide", frequency |-> startFrequency, targetFrequency |-> targetFrequency,
                 sustain |-> sustain, velocity |-> velocity] >>

---------------------------------------------------------------------------
(* GuitarCanvas.tsx: the gesture classifier                                *)

TAP_DURATION_MS == 200

TAP_MOVEMENT_PX == 12

MIN_STRUM_DISTANCE == 120

MIN_SLIDE_DISTANCE == 80

Abs(x) == IF x < 0 THEN -x ELSE x

\* clamp01(n / d) for d > 0, as a JS number
clamp01(n, d) == IF n <= 0 THEN Num(0, 1) ELSE IF n >= d THEN Num(1, 1) ELSE Num(n, d)

\* getRelativePosition(event, layout): layout is None (null) or Some(rectangle)
getRelativePosition(event, layout) ==
    IF layout = None \/ layout[1].width <= 0 \/ layout[1].height <= 0 THEN None
    ELSE Some([x |-> clamp01(event.nativeEvent.locationX, layout[1].width),
               y |-> clamp01(event.nativeEvent.locationY, layout[1].height)])

\* a classifier that tests the slide criterion before the strum criterion
handleInterpretationSlideFirst(hasOnGesture, startTime, gestureState, event, layout, dateNow) ==
    LET duration == dateNow - startTime
        absDx == Abs(gestureState.dx)
        absDy == Abs(gestureState.dy)
        relativePosition == getRelativePosition(event, layout)
        gesture ==
            IF duration <= TAP_DURATION_MS /\ absDx <= TAP_MOVEMENT_PX /\ absDy <= TAP_MOVEMENT_PX
            THEN [type |-> "tap",
                  position |-> [x |-> event.nativeEvent.locationX, y |-> event.nativeEvent.locationY],
                  duration |-> duration,
                  relativePosition |-> relativePosition]
            ELSE IF absDx >= MIN_SLIDE_DISTANCE
            THEN [type |-> "slide",
                  direction |-> IF gestureState.dx > 0 THEN "right" ELSE "left",
                  distance |-> absDx,
                  speed |-> Abs(gestureState.vx),
                  relativePosition |-> relativePosition]
            ELSE IF absDy > absDx /\ absDy >= MIN_STRUM_DISTANCE
            THEN [type |-> "strum",
                  direction |-> IF gestureState.dy > 0 THEN "down" ELSE "up",
                  distance |-> absDy,
                  speed |-> Abs(gestureState.vy),
                  relativePosition |-> relativePosition]
            ELSE [type |-> "unknown", detail |-> "No matching gesture pattern detected"]
    IN  IF hasOnGesture THEN <<gesture>> ELSE <<>>

\* handleInterpretation: the sequence of calls made to onGesture.  dateNow is the
\* value Date.now() returns inside the call; speeds are in hundredths.
handleInterpretation(hasOnGesture, startTime, gestureState, event, layout, dateNow) ==
    LET duration == dateNow - startTime
        absDx == Abs(gestureState.dx)
        absDy == Abs(gestureState.dy)
        relativePosition == getRelativePosition(event, layout)
        gesture ==
            IF duration <= TAP_DURATION_MS /\ absDx <= TAP_MOVEMENT_PX /\ absDy <= TAP_MOVEMENT_PX
            THEN [type |-> "tap",
                  position |-> [x |-> event.nativeEvent.locationX, y |-> event.nativeEvent.locationY],
                  duration |-> duration,
                  relativePosition |-> relativePosition]
            ELSE IF absDy > absDx /\ absDy >= MIN_STRUM_DISTANCE
            THEN [type |-> "strum",
                  direction |-> IF gestureState.dy > 0 THEN "down" ELSE "up",
                  distance |-> absDy,
                  speed |-> Abs(gestureState.vy),
                  relativePosition |-> relativePosition]
            ELSE IF absDx >= MIN_SLIDE_DISTANCE
            THEN [type |-> "slide",
                  direction |-> IF gestureState.dx > 0 THEN "right" ELSE "left",
                  distance |-> absDx,
                  speed |-> Abs(gestureState.vx),
                  relativePosition |-> relativePosition]
            ELSE [type |-> "unknown", detail |-> "No matching gesture pattern detected"]
    IN  IF hasOnGesture THEN <<gesture>> ELSE <<>>

---------------------------------------------------------------------------
(* State                                                                   *)

VARIABLES
    \* useGuitarEngine: the option, the React state and the refs
    logLimit, gestureLog, headline, status, isDemoPlaying,
    soundEngine, lastStringIndex, lastFret, frettedStrings, demoTimeouts,
    \* the host: whether an AudioContext can be constructed, the pending
    \* setTimeout entries, and what the last handler programmed on the audio context
    hasAudioContext, timers, dispatched,
    \* history: the gestures handled so far, the last entry point called (and what
    \* it found), and the demo callbacks that ran since the demo was started or a
    \* gesture was handled
    handled, lastCall, fired,
    \* GuitarCanvas: its refs, the host clock and responder, and the history of
    \* the current interaction: its motion sample once it has ended, and the calls
    \* it made to onGesture
    startTimestamp, layoutRef, dateNow, responder, motion, emitted,
    \* a pure function under evaluation: its arguments and its result
    probe, result

engineVars == <<logLimit, gestureLog, headline, status, isDemoPlaying, soundEngine,
                lastStringIndex, lastFret, frettedStrings, demoTimeouts,
                hasAudioContext, timers, dispatched, handled, lastCall, fired>>

canvasVars == <<startTimestamp, layoutRef, dateNow, responder, motion, emitted>>

probeVars == <<probe, result>>

vars == <<engineVars, canvasVars, probeVars>>

---------------------------------------------------------------------------
(* Bounds and inputs                                                       *)

\* gestures handled in one behaviour
MaxGestures == 2

\* the logLimit option ranges over 1..MaxLogLimit and the default
MaxLogLimit == 1

DEFAULT_LOG_LIMIT == 5

LogLimits == (1..MaxLogLimit) \cup {DEFAULT_LOG_LIMIT}

\* the gestures handed to handleGesture (speeds in hundredths)
GestureInputs ==
    { [type |-> "tap", position |-> [x |-> 36, y |-> 40], duration |-> 120,
       relativePosition |-> Some([x |-> Num(18, 100), y |-> Num(1, 8)])],
      [type |-> "strum", direction |-> "down", distance |-> 180, speed |-> 140,
       relativePosition |-> None],
      [type |-> "strum", direction |-> "up", distance |-> 130, speed |-> 30,
       relativePosition |-> None],
      [type |-> "slide", direction |-> "right", distance |-> 100, speed |-> 80,
       relativePosition |-> None],
      [type |-> "slide", direction |-> "left", distance |-> 80, speed |-> 200,
       relativePosition |-> None],
      [type |-> "unknown", detail |-> "No matching gesture pattern detected"] }

---------------------------------------------------------------------------
(* useGuitarEngine: the hook                                               *)

WAITING_MESSAGE == "Waiting for gestures..."

DEMO_COMPLETE_MESSAGE == "Demo complete. Try your own interactions!"

InitEngine ==
    /\ logLimit \in LogLimits
    /\ gestureLog = <<>>
    /\ headline = WAITING_MESSAGE
    /\ status = [lastGesture |-> None, message |-> WAITING_MESSAGE, activeString |-> None,
                 strum |-> None, slide |-> None, chord |-> None]
    /\ isDemoPlaying = FALSE
    /\ soundEngine = None
    /\ lastStringIndex = None
    /\ lastFret = 0
    /\ frettedStrings = [id \in StringIds |-> 0]
    /\ demoTimeouts = <<>>
    /\ hasAudioContext \in BOOLEAN
    /\ timers = {}
    /\ dispatched = <<>>
    /\ handled = <<>>
    /\ lastCall = "none"
    /\ fired = <<>>

\* a demo is active: the flag is set or the host holds a pending demo timeout
DemoActive == isDemoPlaying \/ timers # {}

\* getEngine(): the GuitarSoundEngine, constructed on first use; its context is
\* null (FALSE) when createAudioContext finds no constructor or it throws
getEngine == IF soundEngine = None THEN [context |-> hasAudioContext] ELSE soundEngine[1]

\* clearDemoTimeouts that empties the ref without calling clearTimeout
clearDemoTimeoutsKeepsHostTimers(queue, ids) == [timers |-> queue, demoTimeouts |-> <<>>]

\* clearDemoTimeouts: clearTimeout on every stored id, then empty the ref
clearDemoTimeouts(queue, ids) ==
    [timers |-> {t \in queue : t.id \notin Range(ids)}, demoTimeouts |-> <<>>]

\* the id setTimeout returns: distinct from every pending one
NextTimeoutId(queue) ==
    IF queue = {} THEN 1
    ELSE 1 + (CHOOSE m \in {t.id : t \in queue} : \A t \in queue : t.id <= m)

\* scheduleDemoTimeout(callback, delayMs) on st = [timers, demoTimeouts]
scheduleDemoTimeout(st, callback, delayMs) ==
    LET timeoutId == NextTimeoutId(st.timers)
    IN  [timers |-> st.timers \cup {[id |-> timeoutId, delayMs |-> delayMs, callback |-> callback]},
         demoTimeouts |-> Append(st.demoTimeouts, timeoutId)]

\* Array.prototype.slice(0, end)
Slice0(s, end) ==
    IF end >= 0 THEN Take(s, end) ELSE Take(s, Max2(0, Len(s) + end))

\* a log that appends and keeps the first entries
pushGestureToLogAtTheBack(current, gesture, limit) == Slice0(Append(current, gesture), limit)

\* the updater of pushGestureToLog
pushGestureToLog(current, gesture, limit) == Slice0(<<gesture>> \o current, limit)

\* a tap status that keeps the chord of the status it replaces
TapStatusKeepingChord(gesture, snapshot) ==
    [lastGesture |-> Some(gesture), message |-> "Trigger " \o snapshot.label,
     activeString |-> Some(snapshot), strum |-> None, slide |-> None, chord |-> status.chord]

\* the status captureTap writes
TapStatus(gesture, snapshot) ==
    [lastGesture |-> Some(gesture), message |-> "Trigger " \o snapshot.label,
     activeString |-> Some(snapshot), strum |-> None, slide |-> None, chord |-> None]

captureTap(gesture) ==
    LET stringIndex == findStringIndexFromY(IntNum(gesture.position.y))
        stringDef == StringAt(stringIndex)
        fret == computeFretFromRelativeX(IF gesture.relativePosition = None THEN None
                                         ELSE gesture.relativePosition[1].x)
        snapshot == createPitchSnapshot(stringDef, fret, "tap", Some(gesture.duration))
    IN  /\ lastStringIndex' = Some(stringIndex)
        /\ lastFret' = snapshot.fret
        /\ frettedStrings' = [frettedStrings EXCEPT ![stringDef.id] = snapshot.fret]
        /\ status' = TapStatus(gesture, snapshot)
        /\ soundEngine' = Some(getEngine)
        /\ dispatched' = triggerTap(getEngine.context, stringIndex, gesture.duration, snapshot.fret)

\* the status captureStrum writes; chord is None when detection returned null
StrumStatus(gesture, velocity, strings, chord) ==
    [lastGesture |-> Some(gesture),
     message |-> IF chord # None THEN "Detected " \o chord[1].label \o " chord"
                 ELSE (IF gesture.direction = "down" THEN "Downward" ELSE "Upward") \o " strum",
     activeString |-> None,
     strum |-> Some([direction |-> gesture.direction, velocity |-> velocity, strings |-> strings]),
     slide |-> None,
     chord |-> chord]

captureStrum(gesture) ==
    LET velocity == mapSpeedToVelocity(gesture.speed)
        strings == GUITAR_STRINGS
        chord == detectChordFromFrets(frettedStrings)
    IN  /\ lastStringIndex' = Some(IF gesture.direction = "down" THEN Len(GUITAR_STRINGS) - 1 ELSE 0)
        /\ lastFret' = 0
        /\ frettedStrings' = frettedStrings
        /\ status' = StrumStatus(gesture, velocity, strings, chord)
        /\ soundEngine' = Some(getEngine)
        /\ dispatched' = triggerStrum(getEngine.context, gesture.direction, gesture.speed)

\* a slide status that carries the slide motion alone
SlideStatusWithoutPitch(gesture, snapshot, velocity, stringDef, startFret, targetFret) ==
    [lastGesture |-> Some(gesture),
     message |-> (IF gesture.direction = "right" THEN "Forward" ELSE "Backward")
                    \o " slide to " \o snapshot.label,
     activeString |-> None,
     strum |-> None,
     slide |-> Some([direction |-> gesture.direction, velocity |-> velocity,
                     distance |-> gesture.distance, string |-> stringDef,
                     startFret |-> startFret, targetFret |-> targetFret]),
     chord |-> None]

\* the status captureSlide writes
SlideStatus(gesture, snapshot, velocity, stringDef, startFret, targetFret) ==
    [lastGesture |-> Some(gesture),
     message |-> (IF gesture.direction = "right" THEN "Forward" ELSE "Backward")
                    \o " slide to " \o snapshot.label,
     activeString |-> Some(snapshot),
     strum |-> None,
     slide |-> Some([direction |-> gesture.direction, velocity |-> velocity,
                     distance |-> gesture.distance, string |-> stringDef,
                     startFret |-> startFret, targetFret |-> targetFret]),
     chord |-> None]

\* a slide handler whose anchor, when no string was touched, is the first string
captureSlideOnFirstString(gesture) ==
    LET stringIndex == IF lastStringIndex # None THEN lastStringIndex[1] ELSE 0
        stringDef == StringAt(stringIndex)
        velocity == mapSpeedToVelocity(gesture.speed)
        startFret == lastFret
        targetFret == computeSlideTargetFret(startFret, gesture.direction, gesture.distance)
        snapshot == createPitchSnapshot(stringDef, targetFret, "slide", None)
    IN  /\ lastStringIndex' = Some(stringIndex)
        /\ lastFret' = snapshot.fret
        /\ frettedStrings' = [frettedStrings EXCEPT ![stringDef.id] = snapshot.fret]
        /\ status' = SlideStatus(gesture, snapshot, velocity, stringDef, startFret, targetFret)
        /\ soundEngine' = Some(getEngine)
        /\ dispatched' = triggerSlide(getEngine.context, stringIndex, gesture.direction,
                                      gesture.distance, gesture.speed, startFret)

\* a slide handler that stores the fret the slide reaches for, on or off the
\* fretboard
captureSlideOffTheFretboard(gesture) ==
    LET stringIndex == IF lastStringIndex # None THEN lastStringIndex[1]
                       ELSE Floor(Len(GUITAR_STRINGS), 2)
        stringDef == StringAt(stringIndex)
        velocity == mapSpeedToVelocity(gesture.speed)
        startFret == lastFret
        targetFret == computeSlideTargetFretUnclamped(startFret, gesture.direction, gesture.distance)
        snapshot == createPitchSnapshot(stringDef, targetFret, "slide", None)
    IN  /\ lastStringIndex' = Some(stringIndex)
        /\ lastFret' = targetFret
        /\ frettedStrings' = [frettedStrings EXCEPT ![stringDef.id] = targetFret]
        /\ status' = SlideStatus(gesture, snapshot, velocity, stringDef, startFret, targetFret)
        /\ soundEngine' = Some(getEngine)
        /\ dispatched' = triggerSlide(getEngine.context, stringIndex, gesture.direction,
                                      gesture.distance, gesture.speed, startFret)

captureSlide(gesture) ==
    LET stringIndex == IF lastStringIndex # None THEN lastStringIndex[1]
                       ELSE Floor(Len(GUITAR_STRINGS), 2)
        stringDef == StringAt(stringIndex)
        velocity == mapSpeedToVelocity(gesture.speed)
        startFret == lastFret
        targetFret == computeSlideTargetFret(startFret, gesture.direction, gesture.distance)
        snapshot == createPitchSnapshot(stringDef, targetFret, "slide", None)
    IN  /\ lastStringIndex' = Some(stringIndex)
        /\ lastFret' = snapshot.fret
        /\ frettedStrings' = [frettedStrings EXCEPT ![stringDef.id] = snapshot.fret]
        /\ status' = SlideStatus(gesture, snapshot, velocity, stringDef, startFret, targetFret)
        /\ soundEngine' = Some(getEngine)
        /\ dispatched' = triggerSlide(getEngine.context, stringIndex, gesture.direction,
                                      gesture.distance, gesture.speed, startFret)

\* an updater for the unknown case that keeps the message of the status
UnknownStatusKeepingMessage(current, gesture) ==
    [current EXCEPT !.lastGesture = Some(gesture),
                    !.activeString = None, !.strum = None, !.slide = None, !.chord = None]

\* the status updater of the unknown case of handleGesture
UnknownStatus(current, gesture) ==
    [current EXCEPT !.lastGesture = Some(gesture), !.message = gesture.detail,
                    !.activeString = None, !.strum = None, !.slide = None, !.chord = None]

\* handleGesture(gesture).  The handler closes over the isDemoPlaying of the
\* last render; React re-renders between events, so that is the current value.
HandleGesture(gesture) ==
    /\ Len(handled) < MaxGestures
    /\ LET cancel == isDemoPlaying \/ Len(demoTimeouts) > 0
           cleared == clearDemoTimeouts(timers, demoTimeouts)
       IN  /\ timers' = IF cancel THEN cleared.timers ELSE timers
           /\ demoTimeouts' = IF cancel THEN cleared.demoTimeouts ELSE demoTimeouts
           /\ isDemoPlaying' = IF cancel THEN FALSE ELSE isDemoPlaying
    /\ gestureLog' = pushGestureToLog(gestureLog, gesture, logLimit)
    /\ headline' = formatGestureInternal(gesture)
    /\ CASE gesture.type = "tap" -> captureTap(gesture)
         [] gesture.type = "strum" -> captureStrum(gesture)
         [] gesture.type = "slide" -> captureSlide(gesture)
         [] OTHER -> /\ status' = UnknownStatus(status, gesture)
                     /\ dispatched' = <<>>
                     /\ UNCHANGED <<soundEngine, lastStringIndex, lastFret, frettedStrings>>
    /\ handled' = Append(handled, gesture)
    /\ lastCall' = IF ~DemoActive THEN "handleGesture"
                   ELSE IF fired # <<>> THEN "handleGesture mid-demo"
                   ELSE "handleGesture before the first demo note"
    /\ fired' = <<>>
    /\ UNCHANGED <<logLimit, hasAudioContext, canvasVars, probeVars>>

\* playDemo without its guard
playDemoNeverReturnsEarly == FALSE

\* the guard of playDemo: "if (isDemoPlaying) return"
playDemoReturnsEarly == isDemoPlaying

\* the status updater of playDemo
DemoStartStatus(current) ==
    [current EXCEPT !.message = "Playing classical demo...", !.lastGesture = None,
                    !.activeString = None, !.strum = None, !.slide = None, !.chord = None]

RECURSIVE ScheduleDemoEvents(_, _)
\* CLASSICAL_DEMO_SEQUENCE.forEach(scheduleDemoTimeout(..., event.atMs)), from event i
ScheduleDemoEvents(st, i) ==
    IF i > Len(CLASSICAL_DEMO_SEQUENCE) THEN st
    ELSE ScheduleDemoEvents(
            scheduleDemoTimeout(st, [kind |-> "note", event |-> CLASSICAL_DEMO_SEQUENCE[i]],
                                CLASSICAL_DEMO_SEQUENCE[i].atMs),
            i + 1)

\* playDemo with the completion callback set at the completion delay alone
ScheduleDemoCompletionAtDelayOnly(st) ==
    scheduleDemoTimeout(ScheduleDemoEvents(st, 1), [kind |-> "complete"],
                        DEMO_COMPLETION_DELAY_MS)

\* every timeout playDemo schedules: one per event, then the completion callback
ScheduleDemo(st) ==
    scheduleDemoTimeout(ScheduleDemoEvents(st, 1), [kind |-> "complete"],
                        CLASSICAL_DEMO_DURATION_MS + DEMO_COMPLETION_DELAY_MS)

\* playDemo().  lastCall records whether the call found a demo playing.
PlayDemo ==
    /\ lastCall' = IF isDemoPlaying THEN "playDemo while playing" ELSE "playDemo"
    /\ IF playDemoReturnsEarly
       THEN UNCHANGED <<timers, demoTimeouts, isDemoPlaying, headline, status, soundEngine,
                        dispatched, fired>>
       ELSE LET scheduled == ScheduleDemo(clearDemoTimeouts(timers, demoTimeouts))
            IN  /\ timers' = scheduled.timers
                /\ demoTimeouts' = scheduled.demoTimeouts
                /\ isDemoPlaying' = TRUE
                /\ headline' = CLASSICAL_DEMO_HEADLINE
                /\ status' = DemoStartStatus(status)
                /\ soundEngine' = Some(getEngine)
                /\ dispatched' = <<>>
                /\ fired' = <<>>
    /\ UNCHANGED <<logLimit, gestureLog, lastStringIndex, lastFret, frettedStrings,
                   hasAudioContext, handled, canvasVars, probeVars>>

\* a demo note status that announces the note without its pitch snapshot
DemoNoteStatusWithoutPitch(snapshot) ==
    [lastGesture |-> None, message |-> "Demo note " \o snapshot.label,
     activeString |-> None, strum |-> None, slide |-> None, chord |-> None]

\* the status a demo note callback writes
DemoNoteStatus(snapshot) ==
    [lastGesture |-> None, message |-> "Demo note " \o snapshot.label,
     activeString |-> Some(snapshot), strum |-> None, slide |-> None, chord |-> None]

\* the per-event callback scheduled by playDemo
DemoNoteCallback(event) ==
    LET stringIndex == FindStringIndex(event.stringId)
    IN  IF stringIndex = -1
        THEN UNCHANGED <<lastStringIndex, lastFret, frettedStrings, status, headline,
                         dispatched, isDemoPlaying>>
        ELSE LET stringDef == StringAt(stringIndex)
                 snapshot == createPitchSnapshot(stringDef, event.fret, "tap", Some(event.durationMs))
             IN  /\ lastStringIndex' = Some(stringIndex)
                 /\ lastFret' = snapshot.fret
                 /\ frettedStrings' = [frettedStrings EXCEPT ![stringDef.id] = snapshot.fret]
                 /\ status' = DemoNoteStatus(snapshot)
                 /\ headline' = "Demo note " \o snapshot.label
                 /\ dispatched' = triggerTap(soundEngine[1].context, stringIndex,
                                             event.durationMs, snapshot.fret)
                 /\ UNCHANGED isDemoPlaying

\* the status updater of the completion callback
DemoCompleteStatus(current) ==
    [current EXCEPT !.message = DEMO_COMPLETE_MESSAGE,
                    !.activeString = None, !.strum = None, !.slide = None]

\* a completion callback that leaves the demo-active flag set
DemoCompleteCallbackLeavesFlag ==
    /\ isDemoPlaying' = isDemoPlaying
    /\ headline' = "Demo complete - try your own gestures"
    /\ status' = DemoCompleteStatus(status)
    /\ dispatched' = <<>>
    /\ UNCHANGED <<lastStringIndex, lastFret, frettedStrings>>

\* the completion callback scheduled by playDemo
DemoCompleteCallback ==
    /\ isDemoPlaying' = FALSE
    /\ headline' = "Demo complete - try your own gestures"
    /\ status' = DemoCompleteStatus(status)
    /\ dispatched' = <<>>
    /\ UNCHANGED <<lastStringIndex, lastFret, frettedStrings>>

\* the pending timeout the host runs next: the earliest due one, and of several
\* due together the one set first.  All pending timeouts were set by one call
\* of playDemo, so the least delay is the earliest due time.
NextDue(queue) ==
    CHOOSE t \in queue : \A u \in queue :
        t.delayMs < u.delayMs \/ (t.delayMs = u.delayMs /\ t.id <= u.id)

\* the host runs the wrapper scheduleDemoTimeout handed to setTimeout
FireDemoTimeout ==
    /\ timers # {}
    /\ LET t == NextDue(timers)
       IN  /\ timers' = timers \ {t}
           /\ demoTimeouts' = SelectSeq(demoTimeouts, LAMBDA stored : stored # t.id)
           /\ IF t.callback.kind = "note" THEN DemoNoteCallback(t.callback.event)
              ELSE DemoCompleteCallback
           /\ fired' = Append(fired, [id |-> t.id, atMs |-> t.delayMs, kind |-> t.callback.kind])
    /\ UNCHANGED <<logLimit, gestureLog, soundEngine, hasAudioContext, handled, lastCall,
                   canvasVars, probeVars>>

---------------------------------------------------------------------------
(* GuitarCanvas: the component                                             *)

\* the host clock stops advancing at MaxClockMs
MaxClockMs == 402

\* how far around each classifier threshold the displacements are drawn
DeltaMargin == 1

ClockSteps == {TAP_DURATION_MS, TAP_DURATION_MS + 1}

DeltaMagnitudes ==
    {Abs(t + e) : t \in {0, TAP_MOVEMENT_PX, MIN_SLIDE_DISTANCE, MIN_STRUM_DISTANCE},
                  e \in (0 - DeltaMargin)..DeltaMargin}

Deltas == DeltaMagnitudes \cup {0 - t : t \in {TAP_MOVEMENT_PX, MIN_SLIDE_DISTANCE, MIN_STRUM_DISTANCE}}

\* velocities in hundredths of a pixel per millisecond
GestureStates == {[dx |-> dx, dy |-> dy, vx |-> -80, vy |-> 140] : dx \in Deltas, dy \in Deltas}

ReleaseEvents == {[nativeEvent |-> [locationX |-> 42, locationY |-> 128]]}

Layouts == {[width |-> 200, height |-> 300, x |-> 0, y |-> 0],
            [width |-> 0, height |-> 0, x |-> 0, y |-> 0]}

InitCanvas ==
    /\ startTimestamp = 0
    /\ layoutRef = None
    /\ dateNow = 0
    /\ responder = "idle"
    /\ motion = None
    /\ emitted = <<>>

\* handleLayout
HandleLayout(layout) ==
    /\ layoutRef' = Some(layout)
    /\ UNCHANGED <<startTimestamp, dateNow, responder, motion, emitted, engineVars, probeVars>>

\* time passes on the host clock
ClockAdvance(dt) ==
    /\ dateNow + dt <= MaxClockMs
    /\ dateNow' = dateNow + dt
    /\ UNCHANGED <<startTimestamp, layoutRef, responder, motion, emitted, engineVars, probeVars>>

\* onPanResponderGrant
PanResponderGrant ==
    /\ responder = "idle"
    /\ responder' = "granted"
    /\ startTimestamp' = dateNow
    /\ motion' = None
    /\ emitted' = <<>>
    /\ UNCHANGED <<layoutRef, dateNow, engineVars, probeVars>>

\* the body shared by onPanResponderRelease and onPanResponderTerminate; the page
\* always passes an onGesture callback, whose calls are recorded in emitted
EndInteraction(gestureState, event) ==
    /\ responder = "granted"
    /\ responder' = "idle"
    /\ emitted' = handleInterpretation(TRUE, startTimestamp, gestureState, event, layoutRef, dateNow)
    /\ motion' = Some([dx |-> gestureState.dx, dy |-> gestureState.dy,
                       duration |-> dateNow - startTimestamp])
    /\ UNCHANGED <<startTimestamp, layoutRef, dateNow, engineVars, probeVars>>

\* onPanResponderRelease
PanResponderRelease(gestureState, event) == EndInteraction(gestureState, event)

\* onPanResponderTerminate
PanResponderTerminate(gestureState, event) == EndInteraction(gestureState, event)

---------------------------------------------------------------------------
(* The pure helpers under evaluation: probe holds the arguments, result    *)
(* is None until the function has been applied.                            *)

\* the frets drawn for each string of a chord probe are 0..MaxChordFret
MaxChordFret == 4

\* the y coordinates drawn reach ProbeYMargin pixels beyond the outer strings
ProbeYMargin == 25

\* the normalized x drawn are hundredths, on which the double arithmetic of
\* computeFretFromRelativeX agrees with the rational arithmetic used here; they
\* reach ProbeXMargin/100 beyond both ends of the surface
ProbeXMargin == 15

InitProbeIdle == probe = None /\ result = None

ChordProbes == [StringIds -> 0..MaxChordFret]

ProbeYs ==
    {IntNum(y) : y \in ((STRING_TOP_OFFSET_PX - ProbeYMargin)
                          .. (STRING_TOP_OFFSET_PX + (Len(GUITAR_STRINGS) - 1) * STRING_SPACING_PX + ProbeYMargin))
                        \cup {-12, 999}}
        \cup {NaN}

ProbeXs == {Num(n, 100) : n \in (0 - ProbeXMargin)..(100 + ProbeXMargin)} \cup {NaN, None}

InitChordProbe ==
    /\ probe \in {Some([fn |-> "detectChordFromFrets", frettedState |-> f]) : f \in ChordProbes}
    /\ result = None

InitStringProbe ==
    /\ probe \in {Some([fn |-> "findStringIndexFromY", a |-> a, b |-> b]) : a \in ProbeYs, b \in ProbeYs}
    /\ result = None

InitFretProbe ==
    /\ probe \in {Some([fn |-> "computeFretFromRelativeX", a |-> a, b |-> b]) : a \in ProbeXs, b \in ProbeXs}
    /\ result = None

\* apply detectChordFromFrets to the probe
EvalDetectChord ==
    /\ probe # None /\ result = None /\ probe[1].fn = "detectChordFromFrets"
    /\ result' = Some(detectChordFromFrets(probe[1].frettedState))
    /\ UNCHANGED <<probe, engineVars, canvasVars>>

\* apply findStringIndexFromY to both arguments of the probe
EvalFindStringIndex ==
    /\ probe # None /\ result = None /\ probe[1].fn = "findStringIndexFromY"
    /\ result' = Some([a |-> findStringIndexFromY(probe[1].a), b |-> findStringIndexFromY(probe[1].b)])
    /\ UNCHANGED <<probe, engineVars, canvasVars>>

\* apply computeFretFromRelativeX to both arguments of the probe
EvalComputeFret ==
    /\ probe # None /\ result = None /\ probe[1].fn = "computeFretFromRelativeX"
    /\ result' = Some([a |-> computeFretFromRelativeX(probe[1].a),
                       b |-> computeFretFromRelativeX(probe[1].b)])
    /\ UNCHANGED <<probe, engineVars, canvasVars>>

\* the speeds drawn are 0..MaxProbeSpeed hundredths (and 5.00)
MaxProbeSpeed == 170

\* the slide distances drawn are 0..MaxProbeDistance pixels (and 400)
MaxProbeDistance == 260

\* the frets handed to createPitchSnapshot reach ProbeFretMargin beyond 0 and MAX_FRET
ProbeFretMargin == 2

ProbeSpeeds == (0..MaxProbeSpeed) \cup {500}

ProbeDistances == (0..MaxProbeDistance) \cup {400}

MappingProbes ==
    {Some([fn |-> "mapSpeedToVelocity", a |-> a, b |-> b]) : a \in ProbeSpeeds, b \in ProbeSpeeds}
    \cup {Some([fn |-> "computeSlideTargetFret", startFret |-> f, direction |-> dir, distance |-> dist]) :
              f \in 0..MAX_FRET, dir \in {"left", "right"}, dist \in ProbeDistances}
    \cup {Some([fn |-> "createPitchSnapshot", stringIndex |-> i, fret |-> f]) :
              i \in 0..(Len(GUITAR_STRINGS) - 1),
              f \in (0 - ProbeFretMargin)..(MAX_FRET + ProbeFretMargin)}

\* apply mapSpeedToVelocity to both arguments of the probe
EvalMapSpeed ==
    /\ probe # None /\ result = None /\ probe[1].fn = "mapSpeedToVelocity"
    /\ result' = Some([a |-> mapSpeedToVelocity(probe[1].a), b |-> mapSpeedToVelocity(probe[1].b)])
    /\ UNCHANGED <<probe, engineVars, canvasVars>>

\* apply computeSlideTargetFret to the probe
EvalSlideTarget ==
    /\ probe # None /\ result = None /\ probe[1].fn = "computeSlideTargetFret"
    /\ result' = Some(computeSlideTargetFret(probe[1].startFret, probe[1].direction, probe[1].distance))
    /\ UNCHANGED <<probe, engineVars, canvasVars>>

\* apply createPitchSnapshot to the probe
EvalPitchSnapshot ==
    /\ probe # None /\ result = None /\ probe[1].fn = "createPitchSnapshot"
    /\ result' = Some(createPitchSnapshot(StringAt(probe[1].stringIndex), probe[1].fret, "tap", None))
    /\ UNCHANGED <<probe, engineVars, canvasVars>>

---------------------------------------------------------------------------
(* Specifications                                                          *)

\* the engine outside any run: the default option, no audio context
InitEngineIdle == InitEngine /\ logLimit = DEFAULT_LOG_LIMIT /\ hasAudioContext = FALSE

\* the hook under gestures, demo requests and host timers
Init == InitEngine /\ InitCanvas /\ InitProbeIdle

Next ==
    \/ \E gesture \in GestureInputs : HandleGesture(gesture)
    \/ PlayDemo
    \/ FireDemoTimeout

Spec == Init /\ [][Next]_vars

\* the host runs every pending timeout eventually
FairSpec == Spec /\ WF_vars(FireDemoTimeout)

\* the canvas under pointer interactions
InitCanvasSpec == InitEngineIdle /\ InitCanvas /\ InitProbeIdle

NextCanvas ==
    \/ \E layout \in Layouts : HandleLayout(layout)
    \/ \E dt \in ClockSteps : ClockAdvance(dt)
    \/ PanResponderGrant
    \/ \E gestureState \in GestureStates, event \in ReleaseEvents : PanResponderRelease(gestureState, event)
    \/ \E gestureState \in GestureStates, event \in ReleaseEvents : PanResponderTerminate(gestureState, event)

SpecCanvas == InitCanvasSpec /\ [][NextCanvas]_vars

\* the pure helpers, each over its own probes
InitChordSpec == InitEngineIdle /\ InitCanvas /\ InitChordProbe

SpecChord == InitChordSpec /\ [][EvalDetectChord]_vars

InitStringSpec == InitEngineIdle /\ InitCanvas /\ InitStringProbe

SpecString == InitStringSpec /\ [][EvalFindStringIndex]_vars

InitFretSpec == InitEngineIdle /\ InitCanvas /\ InitFretProbe

SpecFret == InitFretSpec /\ [][EvalComputeFret]_vars

\* The hook under gestures alone, with taps all over the surface.
\* locationX and locationY of the taps, on a surface of TapSurface
TapXs == {36, 100, 190}

TapYs == {0, 59, 60, 128, 320}

TapSurface == [width |-> 200, height |-> 320]

\* the tap handleInterpretation emits at (x, y); layoutKnown tells whether the
\* layout was recorded, so that getRelativePosition returned a position
TapAt(x, y, layoutKnown) ==
    [type |-> "tap", position |-> [x |-> x, y |-> y], duration |-> 120,
     relativePosition |-> IF layoutKnown
                          THEN Some([x |-> Num(x, TapSurface.width), y |-> Num(y, TapSurface.height)])
                          ELSE None]

TapInputs == {TapAt(x, y, layoutKnown) : x \in TapXs, y \in TapYs, layoutKnown \in BOOLEAN}

NextSession == \E gesture \in GestureInputs \cup TapInputs : HandleGesture(gesture)

SpecSession == Init /\ [][NextSession]_vars

\* The hook under demo requests, host timers and gestures that reach for the
\* ends of the fretboard: taps in two corners of the surface, the longest
\* slides both ways, and a strum
FretInputs ==
    { TapAt(190, 320, TRUE),
      TapAt(36, 0, FALSE),
      [type |-> "slide", direction |-> "right", distance |-> 400, speed |-> 80,
       relativePosition |-> None],
      [type |-> "slide", direction |-> "left", distance |-> 400, speed |-> 80,
       relativePosition |-> None],
      [type |-> "strum", direction |-> "up", distance |-> 130, speed |-> 30,
       relativePosition |-> None] }

NextFrets ==
    \/ \E gesture \in FretInputs : HandleGesture(gesture)
    \/ PlayDemo
    \/ FireDemoTimeout

SpecFrets == Init /\ [][NextFrets]_vars

\* Two instances of the hook given the same calls: the one in the engine
\* variables, and a second one kept in probe.  They start alike except that the
\* first finds no audio context and the second finds one.  A call is made on
\* the instance in the engine variables; the two are then exchanged, the same
\* call is made on the other, and they are exchanged back.
EngineState ==
    [logLimit |-> logLimit, gestureLog |-> gestureLog, headline |-> headline, status |-> status,
     isDemoPlaying |-> isDemoPlaying, soundEngine |-> soundEngine,
     lastStringIndex |-> lastStringIndex, lastFret |-> lastFret,
     frettedStrings |-> frettedStrings, demoTimeouts |-> demoTimeouts,
     hasAudioContext |-> hasAudioContext, timers |-> timers, dispatched |-> dispatched,
     handled |-> handled, lastCall |-> lastCall, fired |-> fired]

\* the calls an instance has received, as far as the history variables tell
CallHistory(engine) == <<engine.handled, engine.lastCall, engine.fired>>

SecondEngine == probe[1].engine

InitPair ==
    /\ InitEngineIdle
    /\ InitCanvas
    /\ probe = Some([fn |-> "useGuitarEngine",
                     engine |-> [EngineState EXCEPT !.hasAudioContext = TRUE]])
    /\ result = None

\* both instances have received the same calls and the first is in the engine variables
PairInStep == result = None /\ CallHistory(EngineState) = CallHistory(SecondEngine)

\* exchange the two instances: after a call on the first, and again once the
\* second has received it too
ExchangeEngines ==
    /\ \/ result = None /\ CallHistory(EngineState) # CallHistory(SecondEngine)
       \/ result # None /\ CallHistory(EngineState) = CallHistory(SecondEngine)
    /\ result' = IF result = None THEN Some("second") ELSE None
    /\ probe' = Some([fn |-> "useGuitarEngine", engine |-> EngineState])
    /\ logLimit' = SecondEngine.logLimit
    /\ gestureLog' = SecondEngine.gestureLog
    /\ headline' = SecondEngine.headline
    /\ status' = SecondEngine.status
    /\ isDemoPlaying' = SecondEngine.isDemoPlaying
    /\ soundEngine' = SecondEngine.soundEngine
    /\ lastStringIndex' = SecondEngine.lastStringIndex
    /\ lastFret' = SecondEngine.lastFret
    /\ frettedStrings' = SecondEngine.frettedStrings
    /\ demoTimeouts' = SecondEngine.demoTimeouts
    /\ hasAudioContext' = SecondEngine.hasAudioContext
    /\ timers' = SecondEngine.timers
    /\ dispatched' = SecondEngine.dispatched
    /\ handled' = SecondEngine.handled
    /\ lastCall' = SecondEngine.lastCall
    /\ fired' = SecondEngine.fired
    /\ UNCHANGED canvasVars

\* a call on the first instance, or the same call on the second
NextPair ==
    \/ PairInStep /\ Next
    \/ /\ result # None
       /\ CallHistory(EngineState) # CallHistory(SecondEngine)
       /\ Next
       /\ <<handled', lastCall', fired'>> = CallHistory(SecondEngine)
    \/ ExchangeEngines

SpecPair == InitPair /\ [][NextPair]_vars

\* the musical mapping helpers
InitMappingSpec == InitEngineIdle /\ InitCanvas /\ probe \in MappingProbes /\ result = None

NextMapping == EvalMapSpeed \/ EvalSlideTarget \/ EvalPitchSnapshot

SpecMapping == InitMappingSpec /\ [][NextMapping]_vars

---------------------------------------------------------------------------
(* Claims about the hook                                                   *)

Last(s) == s[Len(s)]

GestureWasLast ==
    lastCall \in {"handleGesture", "handleGesture mid-demo", "handleGesture before the first demo note"}

\* C1: once handleGesture has run, and until playDemo is called again, no demo
\* timeout is pending on the host or stored in the ref, demo-active is cleared,
\* no demo callback has run since the gesture, and the status and headline are
\* still the ones the gesture wrote; this holds in particular when the gesture
\* arrived while a demo was active.
C1_GestureCancelsDemo ==
    GestureWasLast =>
        /\ timers = {}
        /\ demoTimeouts = <<>>
        /\ ~isDemoPlaying
        /\ fired = <<>>
        /\ headline = formatGestureInternal(Last(handled))
        /\ status.lastGesture = Some(Last(handled))

\* a tap was handled in the middle of a run, after some demo notes had played
\* and with the rest pending
C1_Witness == lastCall = "handleGesture mid-demo" /\ Last(handled).type = "tap"

\* C2: a demo is active (flag set or a timeout pending) exactly when the flag
\* playDemo tests is set, and a call of playDemo that finds a demo playing
\* changes nothing: not the flag, the pending timeouts and their delays,
\* FrettedState, LastTouchedPosition, the headline, the status, the log, nor
\* does it schedule or dispatch anything.
C2_PlayDemoWhilePlayingIsNoOp ==
    /\ [](DemoActive <=> isDemoPlaying)
    /\ [][(lastCall' = "playDemo while playing" /\ Len(fired') # Len(fired) + 1)
            => UNCHANGED <<isDemoPlaying, timers, demoTimeouts, frettedStrings, lastStringIndex,
                           lastFret, headline, status, gestureLog, dispatched, soundEngine,
                           fired>>]_vars

\* playDemo was called in the middle of a run, after some callbacks had fired
C2_Witness ==
    /\ lastCall = "playDemo while playing"
    /\ isDemoPlaying
    /\ Len(fired) = 3
    /\ Cardinality(timers) = Len(CLASSICAL_DEMO_SEQUENCE) + 1 - 3

\* what a run that no gesture interrupts is to execute: one callback per script
\* entry at its authored offset, in authored order, then the terminal callback
\* at the greatest event end time plus 480 ms
DemoScriptEnds == {e.atMs + e.durationMs : e \in Range(CLASSICAL_DEMO_SEQUENCE)}

ExpectedDemoCallbacks ==
    [i \in 1..(Len(CLASSICAL_DEMO_SEQUENCE) + 1) |->
        IF i <= Len(CLASSICAL_DEMO_SEQUENCE)
        THEN [id |-> i, atMs |-> CLASSICAL_DEMO_SEQUENCE[i].atMs, kind |-> "note"]
        ELSE [id |-> i, kind |-> "complete",
              atMs |-> 480 + (CHOOSE m \in DemoScriptEnds : \A n \in DemoScriptEnds : n <= m)]]

DemoCompleted == fired # <<>> /\ Last(fired).kind = "complete"

\* C3: the callbacks of a run fire in authored offset order, each note callback
\* sounding its own script entry, with the terminal callback last at the greatest
\* end time plus 480 ms; once it has run every callback of the script has run,
\* demo-active is false, no timeout is pending and the status carries the "Demo
\* complete" message; and a started demo always gets there unless a gesture
\* arrives first.
C3_DemoRunsToCompletion ==
    /\ [](/\ Len(fired) <= Len(ExpectedDemoCallbacks)
          /\ fired = Take(ExpectedDemoCallbacks, Len(fired))
          /\ (fired # <<>> /\ Last(fired).kind = "note") =>
                /\ status.activeString # None
                /\ status.activeString[1].string.id = CLASSICAL_DEMO_SEQUENCE[Len(fired)].stringId
                /\ status.activeString[1].fret = CLASSICAL_DEMO_SEQUENCE[Len(fired)].fret
          /\ DemoCompleted =>
                /\ fired = ExpectedDemoCallbacks
                /\ ~isDemoPlaying
                /\ timers = {}
                /\ demoTimeouts = <<>>
                /\ status.message = "Demo complete. Try your own interactions!")
    /\ (isDemoPlaying ~> (DemoCompleted \/ GestureWasLast))

\* a run completed although playDemo was pressed again while it played
C3_Witness ==
    /\ DemoCompleted
    /\ lastCall = "playDemo while playing"
    /\ Len(fired) = Len(CLASSICAL_DEMO_SEQUENCE) + 1

\* C4: the log is the min(k, logLimit) most recent of the k gestures handled,
\* of every type, most recent first; it never holds more than logLimit entries,
\* and demo callbacks and playDemo leave it alone.
C4_LogKeepsMostRecent ==
    /\ Len(gestureLog) = Min2(Len(handled), logLimit)
    /\ Len(gestureLog) <= logLimit
    /\ \A i \in 1..Len(gestureLog) : gestureLog[i] = handled[Len(handled) + 1 - i]

\* the log is full and has dropped its oldest entry, a gesture of unknown type
C4_Witness ==
    /\ Len(handled) > logLimit
    /\ handled[1].type = "unknown"
    /\ Len(gestureLog) = logLimit
    /\ gestureLog[1] = Last(handled)
    /\ gestureLog[1] # handled[1]

\* what wrote the current status: a demo callback if one ran since the last
\* gesture or demo start, else the last call that was not a no-op
StatusWriter ==
    IF fired # <<>> THEN (IF Last(fired).kind = "note" THEN "demo tick" ELSE "demo completion")
    ELSE IF GestureWasLast THEN Last(handled).type
    ELSE IF lastCall = "none" THEN "initial"
    ELSE "demo start"

Populated(st) == {f \in {"activeString", "strum", "slide"} : st[f] # None}

\* the claim as stated: one field per tap, strum, slide or demo tick, none in a
\* cleared status
C5_ExactlyOnePopulated ==
    /\ StatusWriter \in {"tap", "strum", "slide", "demo tick"} => Cardinality(Populated(status)) = 1
    /\ StatusWriter \in {"unknown", "demo start", "demo completion"} => Populated(status) = {}

\* C5: a tap and a demo tick populate activeString alone, a strum populates
\* strum alone, a slide populates both slide and activeString (the pitch at the
\* slide's target fret, with articulation "slide") and never strum; a cleared
\* status (unknown gesture, demo start, demo completion) populates none.
C5_StatusFieldsByWriter ==
    /\ StatusWriter \in {"tap", "demo tick"} => Populated(status) = {"activeString"}
    /\ StatusWriter = "strum" => Populated(status) = {"strum"}
    /\ StatusWriter = "slide" =>
            /\ Populated(status) = {"activeString", "slide"}
            /\ status.activeString[1].articulation = "slide"
            /\ status.activeString[1].fret = status.slide[1].targetFret
            /\ status.activeString[1].string = status.slide[1].string
    /\ StatusWriter \in {"unknown", "demo start", "demo completion", "initial"} =>
            Populated(status) = {}

\* a slide was handled after a tap, and its status carries two of the fields
C5_Witness ==
    /\ StatusWriter = "slide"
    /\ Len(handled) = 2
    /\ handled[1].type = "tap"
    /\ Cardinality(Populated(status)) = 2

---------------------------------------------------------------------------
(* Claims about chord detection                                            *)

\* the pitch classes the six strings sound at the given frets
SoundedPitchClasses(frettedState) ==
    {(GUITAR_STRINGS[i].midi + frettedState[GUITAR_STRINGS[i].id]) % 12 : i \in 1..Len(GUITAR_STRINGS)}

TriadTemplate(quality) == IF quality = "major" THEN {0, 4, 7} ELSE {0, 3, 7}

\* the intervals sounded above a root
IntervalsAbove(root, frettedState) ==
    {(pc - root + 12) % 12 : pc \in SoundedPitchClasses(frettedState)}

\* the (root, quality) pairs whose triad is fully sounded
TriadMatches(frettedState) ==
    {m \in SoundedPitchClasses(frettedState) \X {"major", "minor"} :
        TriadTemplate(m[2]) \subseteq IntervalsAbove(m[1], frettedState)}

\* the number of sounded intervals outside the template and the root
ExtraIntervals(m, frettedState) ==
    Cardinality(IntervalsAbove(m[1], frettedState) \ (TriadTemplate(m[2]) \cup {0}))

ChordEvaluated == probe # None /\ result # None /\ probe[1].fn = "detectChordFromFrets"

G_MAJOR_FRETS ==
    [id \in StringIds |->
        CASE id = "highE" -> 3 [] id = "B" -> 0 [] id = "G" -> 0 [] id = "D" -> 0
          [] id = "A" -> 2 [] id = "lowE" -> 3]

E_MINOR_FRETS ==
    [id \in StringIds |-> IF id \in {"D", "A"} THEN 2 ELSE 0]

\* C6: when some sounded pitch class roots a fully sounded major or minor triad,
\* detectChordFromFrets returns a chord; its root and quality are one of the
\* matches, no match has fewer extra intervals, it is major if a match with as
\* few extra intervals is major, and its label is the root's name and the
\* quality.  The G major voicing gives "G major", the E minor one "E minor".
C6_BestTriadIsReturned ==
    ChordEvaluated =>
        LET frets == probe[1].frettedState
            matches == TriadMatches(frets)
            chord == result[1][1]
            found == CHOOSE m \in matches : NOTE_NAMES[m[1] + 1] = chord.root /\ m[2] = chord.quality
        IN  /\ matches # {} =>
                /\ result[1] # None
                /\ \E m \in matches : NOTE_NAMES[m[1] + 1] = chord.root /\ m[2] = chord.quality
                /\ \A m \in matches : ExtraIntervals(found, frets) <= ExtraIntervals(m, frets)
                /\ (\E m \in matches : /\ m[2] = "major"
                                        /\ ExtraIntervals(m, frets) = ExtraIntervals(found, frets))
                        => chord.quality = "major"
                /\ chord.label = chord.root \o " " \o chord.quality
            /\ frets = G_MAJOR_FRETS => result[1] # None /\ chord.label = "G major"
            /\ frets = E_MINOR_FRETS => result[1] # None /\ chord.label = "E minor"

\* the open strings sound both an E minor and a G major triad with equally many
\* extra intervals, and the major one is returned
C6_Witness ==
    /\ ChordEvaluated
    /\ \A id \in StringIds : probe[1].frettedState[id] = 0
    /\ {<<4, "minor">>, <<7, "major">>} \subseteq TriadMatches(probe[1].frettedState)
    /\ result[1] # None
    /\ result[1][1].label = "G major"

\* C7: detectChordFromFrets returns no chord when the strings sound fewer than
\* three distinct pitch classes, and when no sounded pitch class roots a fully
\* sounded major or minor triad.
C7_NoChordWithoutTriad ==
    ChordEvaluated =>
        /\ Cardinality(SoundedPitchClasses(probe[1].frettedState)) < 3 => result[1] = None
        /\ TriadMatches(probe[1].frettedState) = {} => result[1] = None

\* a fretted state that sounds only E and B was evaluated, with no chord returned
C7_Witness ==
    /\ ChordEvaluated
    /\ SoundedPitchClasses(probe[1].frettedState) = {4, 11}
    /\ result[1] = None

---------------------------------------------------------------------------
(* Claims about the gesture classifier                                     *)

Magnitude(x) == IF x >= 0 THEN x ELSE 0 - x

IsTapMotion(m) == m.duration <= 200 /\ Magnitude(m.dx) <= 12 /\ Magnitude(m.dy) <= 12

IsStrumMotion(m) == Magnitude(m.dy) > Magnitude(m.dx) /\ Magnitude(m.dy) >= 120

IsSlideMotion(m) == Magnitude(m.dx) >= 80

\* C8: a completed interaction (release or terminate) emits exactly one gesture:
\* a tap iff the tap criterion holds; else a strum iff the strum criterion holds,
\* down iff dy > 0; else a slide iff the slide criterion holds, right iff dx > 0;
\* else unknown.  A motion failing all three criteria yields unknown.
C8_ClassifierPriority ==
    motion # None =>
        LET m == motion[1]
        IN  /\ Len(emitted) = 1
            /\ emitted[1].type = "tap" <=> IsTapMotion(m)
            /\ emitted[1].type = "strum" <=> (~IsTapMotion(m) /\ IsStrumMotion(m))
            /\ emitted[1].type = "slide" <=> (~IsTapMotion(m) /\ ~IsStrumMotion(m) /\ IsSlideMotion(m))
            /\ emitted[1].type = "unknown" <=>
                    (~IsTapMotion(m) /\ ~IsStrumMotion(m) /\ ~IsSlideMotion(m))
            /\ emitted[1].type = "strum" => emitted[1].direction = (IF m.dy > 0 THEN "down" ELSE "up")
            /\ emitted[1].type = "slide" => emitted[1].direction = (IF m.dx > 0 THEN "right" ELSE "left")

\* a motion within the tap tolerance that lasted a millisecond too long was
\* classified, and came out unknown
C8_Witness ==
    /\ motion # None
    /\ motion[1].duration = 201
    /\ motion[1].dx = 12
    /\ motion[1].dy = -12
    /\ Len(emitted) = 1
    /\ emitted[1].type = "unknown"

---------------------------------------------------------------------------
(* Claims about the fretboard mapper                                       *)

StringEvaluated == probe # None /\ result # None /\ probe[1].fn = "findStringIndexFromY"

\* the index of the string nearest to pixel row y, the higher index on a tie,
\* kept within the six strings: k with k - 1/2 <= (y - 40) / 40 < k + 1/2
NearestString(y) ==
    LET k == CHOOSE j \in -10..40 : 40 * j - 20 <= y - 40 /\ y - 40 < 40 * j + 20
    IN  IF k < 0 THEN 0 ELSE IF k > 5 THEN 5 ELSE k

\* C9: findStringIndexFromY returns an index in 0..5 for every y (NaN included),
\* equal for a numeric y to round((y - 40) / 40) clamped to 0..5, and for numeric
\* a <= b the index of a is at most the index of b; y = 40 gives 0, 240 gives 5,
\* -12 gives 0 and 999 gives 5.
C9_StringIndexMonotonicAndClamped ==
    StringEvaluated =>
        /\ \A arg \in {"a", "b"} :
              /\ result[1][arg] \in 0..5
              /\ ~IsNaN(probe[1][arg]) => result[1][arg] = NearestString(probe[1][arg][2])
              /\ probe[1][arg] = IntNum(40) => result[1][arg] = 0
              /\ probe[1][arg] = IntNum(240) => result[1][arg] = 5
              /\ probe[1][arg] = IntNum(-12) => result[1][arg] = 0
              /\ probe[1][arg] = IntNum(999) => result[1][arg] = 5
        /\ (~IsNaN(probe[1].a) /\ ~IsNaN(probe[1].b) /\ probe[1].a[2] <= probe[1].b[2])
              => result[1].a <= result[1].b

\* y = 60, midway between the first two strings, was evaluated next to y = 59:
\* they land on different strings
C9_Witness ==
    /\ StringEvaluated
    /\ probe[1].a = IntNum(59)
    /\ probe[1].b = IntNum(60)
    /\ result[1] = [a |-> 0, b |-> 1]

FretEvaluated == probe # None /\ result # None /\ probe[1].fn = "computeFretFromRelativeX"

IsNumber(v) == v # None /\ ~IsNaN(v)

\* C10: computeFretFromRelativeX returns a fret in 0..12 for every input, 0 for
\* absent and NaN input and for every x <= 0.1, 12 for every x >= 0.9, and for
\* numeric a <= b the fret of a is at most the fret of b; x = 0.1 gives 0, 0.18
\* gives 1, 0.5 gives 6 and 0.92 gives 12.
C10_FretMonotonicAndSaturating ==
    FretEvaluated =>
        /\ \A arg \in {"a", "b"} :
              LET x == probe[1][arg]
                  fret == result[1][arg]
              IN  /\ fret \in 0..12
                  /\ ~IsNumber(x) => fret = 0
                  /\ (IsNumber(x) /\ 10 * x[2] <= x[3]) => fret = 0
                  /\ (IsNumber(x) /\ 10 * x[2] >= 9 * x[3]) => fret = 12
                  /\ x = Num(10, 100) => fret = 0
                  /\ x = Num(18, 100) => fret = 1
                  /\ x = Num(50, 100) => fret = 6
                  /\ x = Num(92, 100) => fret = 12
        /\ (IsNumber(probe[1].a) /\ IsNumber(probe[1].b)
                /\ probe[1].a[2] * probe[1].b[3] <= probe[1].b[2] * probe[1].a[3])
              => result[1].a <= result[1].b

\* x = 0.18 and x = 0.92 were evaluated: the first fret, and saturation at 12
C10_Witness ==
    /\ FretEvaluated
    /\ probe[1].a = Num(18, 100)
    /\ probe[1].b = Num(92, 100)
    /\ result[1] = [a |-> 1, b |-> 12]

---------------------------------------------------------------------------
(* Claims about the musical mapping                                        *)

SpeedEvaluated == probe # None /\ result # None /\ probe[1].fn = "mapSpeedToVelocity"

\* the claim as stated, with speeds in hundredths and velocities in thousandths:
\* 0.25 at speed 0, 1 from speed 1.25 on, strictly increasing between 0 and 1.25
C11_SaturatesAt125 ==
    SpeedEvaluated =>
        /\ probe[1].a = 0 => result[1].a = 250
        /\ probe[1].a >= 125 => result[1].a = 1000
        /\ (probe[1].a < probe[1].b /\ probe[1].b <= 125) => result[1].a < result[1].b

\* C11: mapSpeedToVelocity is 0.6 * speed kept within [0.25, 1]: it is 0.25
\* for every speed up to 5/12 (speed 0 included), 1 for every speed from 5/3 on,
\* strictly increasing between 5/12 and 5/3 and non-decreasing everywhere; at
\* speed 1.25 it is 0.75.
C11_VelocityCurve ==
    SpeedEvaluated =>
        /\ \A arg \in {"a", "b"} :
              /\ 12 * probe[1][arg] <= 500 => result[1][arg] = 250
              /\ 3 * probe[1][arg] >= 500 => result[1][arg] = 1000
              /\ (12 * probe[1][arg] >= 500 /\ 3 * probe[1][arg] <= 500)
                    => 10 * result[1][arg] = 60 * probe[1][arg]
              /\ probe[1][arg] = 125 => result[1][arg] = 750
        /\ probe[1].a <= probe[1].b => result[1].a <= result[1].b
        /\ (probe[1].a < probe[1].b /\ 12 * probe[1].a >= 500 /\ 3 * probe[1].b <= 500)
              => result[1].a < result[1].b

\* speeds 0.20 and 1.25 were evaluated: the first is still on the floor, the
\* second not yet saturated
C11_Witness ==
    /\ SpeedEvaluated
    /\ probe[1].a = 20
    /\ probe[1].b = 125
    /\ result[1] = [a |-> 250, b |-> 750]

SlideTargetEvaluated == probe # None /\ result # None /\ probe[1].fn = "computeSlideTargetFret"

\* max(1, round(clamp(distance / 40, 1, 6))): the k in 1..6 with
\* k - 1/2 <= clamp(distance / 40, 1, 6) < k + 1/2
SlideSemitones(distance) ==
    LET kept == IF distance < 40 THEN 40 ELSE IF distance > 240 THEN 240 ELSE distance
    IN  CHOOSE k \in 1..6 : 40 * k - 20 <= kept /\ kept < 40 * k + 20

\* C12: computeSlideTargetFret returns startFret plus (right) or minus (left)
\* max(1, round(clamp(distance / 40, 1, 6))), kept within 0..12; so the result
\* is in 0..12, at least one fret from the start in the slide direction unless
\* the start is already at that end, and at most 6 frets away; from fret 11
\* right with distance >= 240 it is 12, from fret 2 left with distance >= 200
\* it is 0, and from fret 2 right with distance 200 it is 7.
C12_SlideTargetBounded ==
    SlideTargetEvaluated =>
        LET start == probe[1].startFret
            right == probe[1].direction = "right"
            moved == IF right THEN start + SlideSemitones(probe[1].distance)
                     ELSE start - SlideSemitones(probe[1].distance)
            target == result[1]
        IN  /\ target \in 0..12
            /\ target = (IF moved < 0 THEN 0 ELSE IF moved > 12 THEN 12 ELSE moved)
            /\ right => (target > start \/ start = 12)
            /\ ~right => (target < start \/ start = 0)
            /\ target - start \in -6..6
            /\ (start = 11 /\ right /\ probe[1].distance >= 240) => target = 12
            /\ (start = 2 /\ ~right /\ probe[1].distance >= 200) => target = 0
            /\ (start = 2 /\ right /\ probe[1].distance = 200) => target = 7

\* from fret 2 a slide to the left over 100 px (2.5 semitones, rounded to 3)
\* was evaluated and stopped at the nut
C12_Witness ==
    /\ SlideTargetEvaluated
    /\ probe[1].startFret = 2
    /\ probe[1].direction = "left"
    /\ probe[1].distance = 100
    /\ result[1] = 0

PitchSnapshotEvaluated == probe # None /\ result # None /\ probe[1].fn = "createPitchSnapshot"

ChromaticNames == <<"C", "C#", "D", "D#", "E", "F", "F#", "G", "G#", "A", "A#", "B">>

\* C13: createPitchSnapshot yields pitch = open-string pitch + the fret kept
\* within 0..12, and a label made of the chromatic name of pitch mod 12 and the
\* octave floor(pitch / 12) - 1; pitch 64 is "E4", pitch 66 is "F#4", and highE
\* at fret 3 is "G4".
C13_PitchAndLabel ==
    PitchSnapshotEvaluated =>
        LET open == GUITAR_STRINGS[probe[1].stringIndex + 1].midi
            fret == probe[1].fret
            kept == IF fret < 0 THEN 0 ELSE IF fret > 12 THEN 12 ELSE fret
            snapshot == result[1]
        IN  /\ snapshot.fret = kept
            /\ snapshot.midi = open + kept
            /\ snapshot.label = ChromaticNames[(snapshot.midi % 12) + 1]
                                    \o ToString((snapshot.midi \div 12) - 1)
            /\ snapshot.midi = 64 => snapshot.label = "E4"
            /\ snapshot.midi = 66 => snapshot.label = "F#4"
            /\ (probe[1].stringIndex = 0 /\ fret = 3) => snapshot.label = "G4"

\* fret 14 on the B string was evaluated: it is held at fret 12, pitch 71, "B4"
C13_Witness ==
    /\ PitchSnapshotEvaluated
    /\ probe[1].stringIndex = 1
    /\ probe[1].fret = 14
    /\ result[1].fret = 12
    /\ result[1].midi = 71
    /\ result[1].label = "B4"

---------------------------------------------------------------------------
(* Claims about the tone device                                            *)

\* what a gesture may depend on besides the device
SessionState(engine) ==
    [frettedStrings |-> engine.frettedStrings, lastStringIndex |-> engine.lastStringIndex,
     lastFret |-> engine.lastFret, gestureLog |-> engine.gestureLog, status |-> engine.status,
     headline |-> engine.headline, isDemoPlaying |-> engine.isDemoPlaying,
     demoTimeouts |-> engine.demoTimeouts, timers |-> engine.timers]

\* C14: an instance without an audio context never dispatches anything, and
\* after the same calls it has the same FrettedState, LastTouchedPosition,
\* GestureLog, EngineStatus (and headline, demo flag and pending demo timeouts)
\* as an instance with one, which does sound every tap, strum and slide.
C14_DeviceUnavailableChangesNothing ==
    /\ ~hasAudioContext => dispatched = <<>>
    /\ PairInStep =>
          /\ ~hasAudioContext
          /\ SecondEngine.hasAudioContext
          /\ SessionState(EngineState) = SessionState(SecondEngine)
          /\ (GestureWasLast /\ Last(handled).type # "unknown") => SecondEngine.dispatched # <<>>

\* both instances handled a tap and then a slide: the one with the device
\* dispatched the slide, the other nothing, and the slide's status is the same
C14_Witness ==
    /\ PairInStep
    /\ Len(handled) = 2
    /\ handled[1].type = "tap"
    /\ handled[2].type = "slide"
    /\ dispatched = <<>>
    /\ Len(SecondEngine.dispatched) = 1
    /\ SecondEngine.dispatched[1].kind = "slide"
    /\ status.slide # None
    /\ status = SecondEngine.status

---------------------------------------------------------------------------
(* Claims about the session state                                          *)

\* the script entry whose callback ran last
LastDemoEvent == CLASSICAL_DEMO_SEQUENCE[Len(fired)]

\* the 0-based index of the string with the given id
IndexOfString(id) == (CHOOSE i \in 1..Len(GUITAR_STRINGS) : GUITAR_STRINGS[i].id = id) - 1

DemoTickStep == Len(fired') = Len(fired) + 1 /\ Last(fired').kind = "note"

\* the claim as stated, for the log: every demo tick since the last gesture has
\* pushed an entry, so the log holds them up to its capacity
C15_TickIsLogged ==
    StatusWriter = "demo tick" => Len(gestureLog) >= Min2(logLimit, Len(handled) + Len(fired))

\* C15: a demo per-event callback sets FrettedState[string] = fret and
\* LastTouchedPosition = (string, fret), writes a status whose only populated
\* field is the pitch snapshot of (string, fret) with articulation tap and the
\* entry's duration, sets the headline to "Demo note <label>" and dispatches the
\* tap trigger of (string, entry duration, fret); it leaves the other strings'
\* frets and the GestureLog as they were, and records no last gesture.
C15_DemoTickEffect ==
    /\ [](StatusWriter = "demo tick" =>
            LET event == LastDemoEvent
                index == IndexOfString(event.stringId)
                snapshot == createPitchSnapshot(GUITAR_STRINGS[index + 1], event.fret, "tap",
                                                Some(event.durationMs))
            IN  /\ frettedStrings[event.stringId] = event.fret
                /\ lastStringIndex = Some(index)
                /\ lastFret = event.fret
                /\ status = [lastGesture |-> None, message |-> "Demo note " \o snapshot.label,
                             activeString |-> Some(snapshot), strum |-> None, slide |-> None,
                             chord |-> None]
                /\ headline = "Demo note " \o snapshot.label
                /\ dispatched = triggerTap(hasAudioContext, index, event.durationMs, event.fret)
                /\ hasAudioContext => Len(dispatched) = 1)
    /\ [][DemoTickStep =>
            /\ gestureLog' = gestureLog
            /\ \A id \in StringIds \ {CLASSICAL_DEMO_SEQUENCE[Len(fired')].stringId} :
                    frettedStrings'[id] = frettedStrings[id]]_vars

\* the twelfth demo note (B string, fret 3) sounded after a gesture had been
\* handled earlier, and the log still holds that gesture alone
C15_Witness ==
    /\ StatusWriter = "demo tick"
    /\ Len(fired) = 12
    /\ frettedStrings["B"] = 3
    /\ hasAudioContext
    /\ Len(handled) = 1
    /\ gestureLog = handled

\* C16: whenever a string has been touched, the last touched fret is the fret
\* FrettedState holds on the last touched string, so the start fret of a slide is
\* the fret held on its anchor string.
C16_LastFretIsHeldFret ==
    lastStringIndex # None => lastFret = frettedStrings[StringAt(lastStringIndex[1]).id]

\* a step in which handleGesture handled a gesture of the given type
GestureStep(type) == Len(handled') = Len(handled) + 1 /\ Last(handled').type = type

\* C17: a strum leaves FrettedState and LastTouchedPosition as they were; only a
\* tap, a slide or a demo tick changes either of them.
C17_StrumKeepsAnchor ==
    [][/\ GestureStep("strum") => UNCHANGED <<frettedStrings, lastStringIndex, lastFret>>
       /\ frettedStrings' # frettedStrings \/ <<lastStringIndex, lastFret>>' # <<lastStringIndex, lastFret>>
            => GestureStep("tap") \/ GestureStep("slide") \/ DemoTickStep]_vars

\* C18: a slide anchors on the last touched string, or on the string of index 3
\* when none was touched, and starts from the last touched fret (0 when none);
\* it writes the target fret to FrettedState of the anchor and to the last
\* touched fret, keeps the anchor as the last touched string, leaves the other
\* five frets as they were, and reports anchor, start and target in the status.
C18_SlideAnchor ==
    [][GestureStep("slide") =>
        LET gesture == Last(handled')
            anchor == IF lastStringIndex # None THEN lastStringIndex[1] ELSE 3
            start == lastFret
            moved == IF gesture.direction = "right" THEN start + SlideSemitones(gesture.distance)
                     ELSE start - SlideSemitones(gesture.distance)
            target == IF moved < 0 THEN 0 ELSE IF moved > 12 THEN 12 ELSE moved
        IN  /\ lastStringIndex = None => start = 0
            /\ frettedStrings'[GUITAR_STRINGS[anchor + 1].id] = target
            /\ \A id \in StringIds \ {GUITAR_STRINGS[anchor + 1].id} :
                    frettedStrings'[id] = frettedStrings[id]
            /\ lastFret' = target
            /\ lastStringIndex' = Some(anchor)
            /\ status'.slide # None
            /\ status'.slide[1].string = GUITAR_STRINGS[anchor + 1]
            /\ status'.slide[1].startFret = start
            /\ status'.slide[1].targetFret = target]_vars

\* a slide to the right over 100 px was the first thing the session handled: it
\* anchored on the D string (index 3) at fret 0 and moved it to fret 3
C18_Witness ==
    /\ Len(handled) = 1
    /\ handled[1].type = "slide"
    /\ handled[1].direction = "right"
    /\ lastCall = "handleGesture"
    /\ lastStringIndex = Some(3)
    /\ lastFret = 3
    /\ frettedStrings = [id \in StringIds |-> IF id = "D" THEN 3 ELSE 0]
    /\ status.slide # None
    /\ status.slide[1].startFret = 0

\* C19: a tap at height y and normalized x sets FrettedState[s] = f and
\* LastTouchedPosition = (s, f) with s = findStringIndexFromY(y) and
\* f = computeFretFromRelativeX(x), leaves the other five frets as they were,
\* sets status.activeString to the tap snapshot of (s, f) and clears the chord,
\* and programs exactly one tone on the device, that of string s at fret f.
C19_TapEffect ==
    [][GestureStep("tap") =>
        LET gesture == Last(handled')
            s == findStringIndexFromY(IntNum(gesture.position.y))
            f == computeFretFromRelativeX(IF gesture.relativePosition = None THEN None
                                          ELSE gesture.relativePosition[1].x)
            id == GUITAR_STRINGS[s + 1].id
        IN  /\ frettedStrings'[id] = f
            /\ \A other \in StringIds \ {id} : frettedStrings'[other] = frettedStrings[other]
            /\ lastStringIndex' = Some(s)
            /\ lastFret' = f
            /\ status'.activeString =
                   Some(createPitchSnapshot(GUITAR_STRINGS[s + 1], f, "tap", Some(gesture.duration)))
            /\ status'.chord = None
            /\ status'.strum = None /\ status'.slide = None
            /\ hasAudioContext =>
                   /\ Len(dispatched') = 1
                   /\ dispatched'[1].kind = "tone"
                   /\ dispatched'[1].frequency = midiToFrequency(GUITAR_STRINGS[s + 1].midi + f)]_vars

\* after a strum of the open strings had put the G major chord in the status, a
\* tap at y = 128 and x = 100 of 200 held fret 6 on the G string and sounded it
C19_Witness ==
    /\ Len(handled) = 2
    /\ handled[1].type = "strum"
    /\ handled[2] = TapAt(100, 128, TRUE)
    /\ frettedStrings = [id \in StringIds |-> IF id = "G" THEN 6 ELSE 0]
    /\ lastStringIndex = Some(2)
    /\ lastFret = 6
    /\ status.chord = None
    /\ status.activeString # None
    /\ Len(dispatched) = 1

\* C20: an unknown gesture leaves FrettedState and LastTouchedPosition as they
\* were, programs nothing on the tone device and creates no sound engine, and
\* makes the gesture's diagnostic detail the status message.
C20_UnknownChangesNoMusic ==
    [][GestureStep("unknown") =>
        /\ UNCHANGED <<frettedStrings, lastStringIndex, lastFret, soundEngine>>
        /\ dispatched' = <<>>
        /\ status'.message = Last(handled').detail
        /\ status'.lastGesture = Some(Last(handled'))]_vars

\* an unknown gesture arrived while the demo was playing, after some of its
\* notes: the frets and the last touched position are those the demo left
C20_Witness ==
    /\ handled # <<>>
    /\ Last(handled).type = "unknown"
    /\ lastCall = "handleGesture mid-demo"
    /\ lastStringIndex # None
    /\ \E id \in StringIds : frettedStrings[id] # 0
    /\ status.message = "No matching gesture pattern detected"
    /\ dispatched = <<>>

---------------------------------------------------------------------------
(* Claims about the tones                                                  *)

\* the strings from the top of the surface to the bottom
TopToBottom == <<"highE", "B", "G", "D", "A", "lowE">>

\* the pitch coordinate of the open string with the given id
OpenStringFrequency(id) == 40 * (CHOOSE m \in 40..64 : \E i \in 1..6 :
                                    GUITAR_STRINGS[i].id = id /\ GUITAR_STRINGS[i].midi = m)

\* C21: a strum programs exactly six tones on the device, one per string, from
\* highE to lowE for direction down and from lowE to highE for up, the k-th
\* (k = 0..5) starting 25 k ms after the first; and the status chord is the
\* result of chord detection over FrettedState as it was when the strum came.
C21_StrumTones ==
    [][GestureStep("strum") =>
        LET gesture == Last(handled')
            order == IF gesture.direction = "down" THEN TopToBottom
                     ELSE [k \in 1..6 |-> TopToBottom[7 - k]]
        IN  /\ status'.chord = detectChordFromFrets(frettedStrings)
            /\ status'.strum # None
            /\ hasAudioContext =>
                   /\ Len(dispatched') = 6
                   /\ \A k \in 0..5 :
                          /\ dispatched'[k + 1].kind = "tone"
                          /\ dispatched'[k + 1].frequency = OpenStringFrequency(order[k + 1])
                          /\ dispatched'[k + 1].startDelayMs = 25 * k]_vars

\* an upward strum came while the demo was playing: the first of its six tones
\* is the low E string, the last one the high E string 125 ms later, and the
\* frets the demo had set make a chord
C21_Witness ==
    /\ handled # <<>>
    /\ Last(handled).type = "strum"
    /\ Last(handled).direction = "up"
    /\ lastCall = "handleGesture mid-demo"
    /\ hasAudioContext
    /\ Len(dispatched) = 6
    /\ dispatched[1].frequency = 40 * 40
    /\ dispatched[6].frequency = 40 * 64
    /\ dispatched[6].startDelayMs = 125
    /\ status.chord # None
    /\ \E id \in StringIds : frettedStrings[id] # 0

\* C22: the tone of a slide ramps from the frequency of the anchor string at the
\* start fret to the frequency of the pitch snapshot the slide put in the
\* status, which is the anchor string at the fret now held in FrettedState.
C22_SlideEndsOnShownPitch ==
    (StatusWriter = "slide" /\ hasAudioContext) =>
        LET shown == status.activeString[1]
            slide == status.slide[1]
        IN  /\ Len(dispatched) = 1
            /\ dispatched[1].kind = "slide"
            /\ dispatched[1].frequency = 40 * (slide.string.midi + slide.startFret)
            /\ shown.fret = frettedStrings[slide.string.id]
            /\ shown.midi = slide.string.midi + shown.fret
            /\ dispatched[1].targetFrequency = 40 * shown.midi

\* C23: every entry of FrettedState is an integer in 0..12, the last touched
\* fret is in 0..12, and the last touched string is unset or an index in 0..5.
C23_OnTheFretboard ==
    /\ \A id \in StringIds : frettedStrings[id] \in 0..12
    /\ lastFret \in 0..12
    /\ lastStringIndex = None \/ lastStringIndex[1] \in 0..5

\* a tap in the bottom right corner held fret 12 on the low E string, and the
\* longest slide to the right that followed left it at fret 12
C23_Witness ==
    /\ Len(handled) = 2
    /\ handled[1] = TapAt(190, 320, TRUE)
    /\ handled[2].type = "slide"
    /\ handled[2].direction = "right"
    /\ frettedStrings["lowE"] = 12
    /\ lastStringIndex = Some(5)
    /\ lastFret = 12
    /\ status.slide # None
    /\ status.slide[1].startFret = 12
    /\ status.slide[1].targetFret = 12

---------------------------------------------------------------------------
(* Claims about the demo timers                                            *)

\* the pending timeouts that run the terminal callback
PendingCompletions == {t \in timers : t.callback.kind = "complete"}

\* the pending timeouts that sound the i-th entry of the script
PendingNotes(i) ==
    {t \in timers : t.callback.kind = "note" /\ t.callback.event = CLASSICAL_DEMO_SEQUENCE[i]}

\* C24: demo-active is set exactly when the terminal callback is pending; with
\* demo-active clear nothing is pending on the host or stored in the ref; the
\* pending timeouts are at most one per script entry and one terminal callback,
\* each of them stored in the ref; demo-active is never set with nothing
\* pending; and after a completion or a gesture demo-active is clear, so that
\* playDemo starts a new run.
C24_DemoActiveIffCompletionPending ==
    /\ isDemoPlaying <=> PendingCompletions # {}
    /\ ~isDemoPlaying => (timers = {} /\ demoTimeouts = <<>>)
    /\ Cardinality(PendingCompletions) <= 1
    /\ \A i \in 1..Len(CLASSICAL_DEMO_SEQUENCE) : Cardinality(PendingNotes(i)) <= 1
    /\ Cardinality(timers) <= Len(CLASSICAL_DEMO_SEQUENCE) + 1
    /\ {t.id : t \in timers} = Range(demoTimeouts)
    /\ isDemoPlaying => timers # {}
    /\ (DemoCompleted \/ GestureWasLast) => (~isDemoPlaying /\ ~playDemoReturnsEarly)

\* a second run, started after a gesture had interrupted the first, has played
\* all of its notes: demo-active is still set and the one pending timeout is the
\* terminal callback
C24_Witness ==
    /\ isDemoPlaying
    /\ handled # <<>>
    /\ lastCall = "playDemo"
    /\ Len(fired) = Len(CLASSICAL_DEMO_SEQUENCE)
    /\ Cardinality(timers) = 1
    /\ PendingCompletions = timers
    /\ Len(demoTimeouts) = 1

=============================================================================
